---- MODULE Spec2Model ----
(***************************************************************************)
(* Model of qbo_oauth_app.py: the /callback handler of the QuickBooks      *)
(* Online OAuth2 authorization-code flow and the token store               *)
(* (upsert_qbo_token) behind it.                                           *)
(*                                                                         *)
(* A request handler blocks at its outbound calls (the token-exchange      *)
(* POST, the userinfo GET, the datastore), so one callback is three or     *)
(* four steps and the steps of concurrent callbacks interleave.            *)
(***************************************************************************)
EXTENDS Integers, Sequences, FiniteSets, TLC

\* ------------------------------------------------------------------ bounds

\* The clock (seconds) runs from 1 to MaxClock.
MaxClock == 2

\* ------------------------------------------------------- values and inputs

\* Python None / SQL NULL, for text and for numbers.
None == "None"
NoneNum == -1

\* Concurrent request handlers (one thread per inbound request).
Procs == {1, 2}

Realms == {"r1", "r2"}
QBO_ENV == "sandbox"
CLIENT_ID == "client"

Truthy(v) == v # None /\ v # ""
TruthyNum(n) == n # NoneNum /\ n # 0

\* Query arguments of GET /callback: absent (None), empty, or present.
Codes == {None, "", "c1"}
RealmArgs == {None, ""} \cup Realms

\* The JSON body of a token response. A key the body omits reads as None.
TokenBody(a, rt, tt, ei, xr) ==
    [access_token |-> a, refresh_token |-> rt, token_type |-> tt,
     expires_in |-> ei, x_refresh_token_expires_in |-> xr]

NoToken == TokenBody(None, None, None, NoneNum, NoneNum)

TokenBodies ==
    { TokenBody(a, "rt1", "bearer", 3600, 8000) : a \in {None, "a1"} }
    \cup { TokenBody("a2", None, None, 3600, NoneNum),
           TokenBody("a1", "rt2", "Bearer", 0, 0) }

\* What requests.post gives: a RequestException (connection error, timeout),
\* or a response with a status and a body that is JSON or not.
TokenResp(k, s, j, b) == [kind |-> k, status |-> s, json |-> j, body |-> b]
NoTokenResp == TokenResp("none", 0, FALSE, NoToken)
FullBody == TokenBody("a1", "rt1", "bearer", 3600, 8000)
TokenResponses ==
    { TokenResp("neterr", 0, FALSE, NoToken),
      TokenResp("http", 200, FALSE, NoToken),
      TokenResp("http", 401, TRUE, NoToken),
      TokenResp("http", 401, TRUE, FullBody),
      TokenResp("http", 500, FALSE, NoToken),
      TokenResp("http", 201, TRUE, FullBody) }
    \cup { TokenResp("http", 200, TRUE, b) : b \in TokenBodies }

\* What requests.get on the userinfo endpoint gives.
UserInfo(k, s, e, u) == [kind |-> k, status |-> s, email |-> e, sub |-> u]
NoUserInfo == UserInfo("none", 0, None, None)
UserInfoResponses ==
    { UserInfo("neterr", 0, None, None),
      UserInfo("http", 401, None, None),
      UserInfo("http", 200, "e1", "u1") }

\* Failures the datastore driver can raise, by the call that raises.
\* At most one call of the try block fails; the calls of the except and
\* finally blocks fail independently.
TryFaults == {"connect", "execute", "commit"}
CleanupFaults == {"rollback", "cur_close", "conn_close"}
DbFaults == { t \cup c : t \in {{}} \cup {{f} : f \in TryFaults},
                         c \in SUBSET CleanupFaults }

\* HTTP responses of the handler.
Resp(s, b) == [status |-> s, body |-> b]
NoResp == Resp(0, "")
MissingArgs == Resp(400, "Missing authorization code or realmId")
MissingToken == Resp(400, "Access token missing in response")
CommFailed == Resp(502, "OAuth communication failed")
AuthFailed == Resp(500, "Authentication failed")
RedirectPeek == Resp(302, "peek")

\* ------------------------------------------------------------------- state

VARIABLES
    store,      \* rows of config.qbo_oauth_tokens
    now,        \* the clock
    pc,         \* per handler: idle, exchange, identity, persist, done
    req,        \* per handler: the callback's code and realmId
    token,      \* per handler: the token-exchange response
    userinfo,   \* per handler: the userinfo response
    resp,       \* per handler: the HTTP response returned
    calls,      \* per handler: outbound calls made by the current request
    put         \* per handler: the request's upsert_qbo_token call (faulty: the
                \* datastore failed during it; leaked: its connection was
                \* left open; at: the time of the call, its issued_at;
                \* computed: it reached the expiry computation, with
                \* access_expiry and refresh_expiry the values computed)
    ,
    peeked,     \* per handler: the outcome of its last GET /peek
    session     \* the anti-forgery state /start saved in the session

vars == <<store, now, pc, req, token, userinfo, resp, calls, put, peeked,
          session>>

NoCalls == [post |-> 0, get |-> 0, write |-> 0]
NoPut == [called |-> FALSE, faulty |-> FALSE, committed |-> FALSE,
          raised |-> FALSE, leaked |-> FALSE, at |-> 0,
          computed |-> FALSE, access_expiry |-> NoneNum,
          refresh_expiry |-> NoneNum]

NoPeek == [called |-> FALSE, status |-> 0, rows |-> <<>>, leaked |-> FALSE]
NoReq == [code |-> None, realmId |-> None]

\* ------------------------------------------------------------- token store

\* Rows the table holds when the application starts.
OldRow(realm_id, env) ==
    [realm_id |-> realm_id, intuit_user_id |-> "u0", intuit_email |-> "e0",
     access_token |-> "a0", refresh_token |-> "rt0", token_type |-> "legacy",
     expires_in |-> 1800, refresh_expires_in |-> 5000, issued_at_utc |-> 0,
     access_token_expires_at |-> 1800, refresh_token_expires_at |-> 5000,
     qbo_environment |-> env, client_id |-> CLIENT_ID,
     created_at |-> 0, updated_at |-> 0]

\* A row last written t seconds before the application started.
AgedRow(realm_id, env, t) ==
    [OldRow(realm_id, env) EXCEPT !.created_at = 0 - t, !.updated_at = 0 - t]

InitStores ==
    { {},
      { OldRow("r1", "sandbox") },
      { OldRow("r1", "sandbox"), OldRow("r1", "production"),
        AgedRow("r2", "sandbox", 1), AgedRow("r3", "sandbox", 2),
        AgedRow("r4", "sandbox", 3), AgedRow("r5", "production", 4) } }

\* The thirteen columns the INSERT binds to a %s placeholder, in order;
\* created_at and updated_at are now().
InsertColumns ==
    << "realm_id", "intuit_user_id", "intuit_email", "access_token",
       "refresh_token", "token_type", "expires_in", "refresh_expires_in",
       "issued_at_utc", "access_token_expires_at", "refresh_token_expires_at",
       "qbo_environment", "client_id" >>

\* issued_at.timestamp() + expires_in if expires_in else None
Expiry(issued_at, seconds) ==
    IF TruthyNum(seconds) THEN issued_at + seconds ELSE NoneNum

\* token.get("token_type", "bearer")
TokenType(tok) == IF tok.token_type = None THEN "bearer" ELSE tok.token_type

\* The parameter tuple handed to cur.execute.
ParamsWithUserId(tok, realm_id, intuit_email, intuit_user_id, issued_at) ==
    << realm_id, intuit_user_id, intuit_email, tok.access_token,
       tok.refresh_token, TokenType(tok),
       tok.expires_in, tok.x_refresh_token_expires_in, issued_at,
       Expiry(issued_at, tok.expires_in),
       Expiry(issued_at, tok.x_refresh_token_expires_in),
       QBO_ENV, CLIENT_ID >>

Params(tok, realm_id, intuit_email, intuit_user_id, issued_at) ==
    << realm_id, intuit_email, tok.access_token,
       tok.refresh_token, TokenType(tok),
       tok.expires_in, tok.x_refresh_token_expires_in, issued_at,
       Expiry(issued_at, tok.expires_in),
       Expiry(issued_at, tok.x_refresh_token_expires_in),
       QBO_ENV, CLIENT_ID >>

\* Positional binding of the parameters to the placeholders.
Bind(params) ==
    [c \in {InsertColumns[i] : i \in 1..Len(InsertColumns)} |->
        params[CHOOSE i \in 1..Len(InsertColumns) : InsertColumns[i] = c]]

Conflicts(st, row) ==
    { r \in st : r.realm_id = row.realm_id
                 /\ r.qbo_environment = row.qbo_environment }

\* INSERT ... ON CONFLICT (realm_id, qbo_environment) DO UPDATE SET ...
UpsertRow(st, row, t) ==
    IF Conflicts(st, row) = {}
    THEN st \cup { [realm_id |-> row.realm_id,
                    intuit_user_id |-> row.intuit_user_id,
                    intuit_email |-> row.intuit_email,
                    access_token |-> row.access_token,
                    refresh_token |-> row.refresh_token,
                    token_type |-> row.token_type,
                    expires_in |-> row.expires_in,
                    refresh_expires_in |-> row.refresh_expires_in,
                    issued_at_utc |-> row.issued_at_utc,
                    access_token_expires_at |-> row.access_token_expires_at,
                    refresh_token_expires_at |-> row.refresh_token_expires_at,
                    qbo_environment |-> row.qbo_environment,
                    client_id |-> row.client_id,
                    created_at |-> t,
                    updated_at |-> t] }
    ELSE (st \ Conflicts(st, row))
         \cup { [old EXCEPT
                   !.access_token = row.access_token,
                   !.refresh_token = row.refresh_token,
                   !.expires_in = row.expires_in,
                   !.refresh_expires_in = row.refresh_expires_in,
                   !.issued_at_utc = row.issued_at_utc,
                   !.access_token_expires_at = row.access_token_expires_at,
                   !.refresh_token_expires_at = row.refresh_token_expires_at,
                   !.intuit_user_id = row.intuit_user_id,
                   !.intuit_email = row.intuit_email,
                   !.updated_at = t] : old \in Conflicts(st, row) }

\* cur.execute(sql, params): the driver raises before sending anything when
\* the parameters do not match the placeholders in number.
Execute(st, params, t) ==
    IF Len(params) # Len(InsertColumns)
    THEN [raised |-> TRUE, store |-> st]
    ELSE [raised |-> FALSE, store |-> UpsertRow(st, Bind(params), t)]

\* get_db_conn(): raises when the connection cannot be opened.
get_db_conn(faults) == "connect" \notin faults

\* The function with intuit_user_id in the parameter tuple and an INSERT
\* without the ON CONFLICT clause, on a table without the unique index.
upsert_insert_only(st, tok, realm_id, intuit_email, intuit_user_id, t, faults) ==
    LET row == Bind(ParamsWithUserId(tok, realm_id, intuit_email,
                                     intuit_user_id, t))
        ok == faults = {}
    IN  [store |-> IF ok THEN st \cup { [OldRow(realm_id, QBO_ENV) EXCEPT
                                           !.access_token = row.access_token,
                                           !.created_at = t,
                                           !.updated_at = t] }
                   ELSE st,
         committed |-> ok,
         raised |-> FALSE,
         leaked |-> FALSE,
         computed |-> TRUE,
         access_expiry |-> row.access_token_expires_at,
         refresh_expiry |-> row.refresh_token_expires_at]

\* The function with intuit_user_id in the parameter tuple and the conflict
\* target (realm_id) alone: every record of the realm is updated, whatever
\* its environment.
upsert_realm_only(st, tok, realm_id, intuit_email, intuit_user_id, t, faults) ==
    LET row == Bind(ParamsWithUserId(tok, realm_id, intuit_email,
                                     intuit_user_id, t))
        ok == faults = {}
        hit == { r \in st : r.realm_id = realm_id }
    IN  [store |-> IF ~ok THEN st
                   ELSE IF hit = {}
                   THEN st \cup { [OldRow(realm_id, QBO_ENV) EXCEPT
                                     !.access_token = row.access_token,
                                     !.created_at = t,
                                     !.updated_at = t] }
                   ELSE (st \ hit)
                        \cup { [r EXCEPT !.access_token = row.access_token,
                                         !.updated_at = t] : r \in hit },
         committed |-> ok,
         raised |-> FALSE,
         leaked |-> FALSE,
         computed |-> TRUE,
         access_expiry |-> row.access_token_expires_at,
         refresh_expiry |-> row.refresh_token_expires_at]

\* upsert_qbo_token: what it leaves in the store, whether an exception
\* leaves it, whether the write was committed and whether it leaves the
\* connection open.
upsert_qbo_token(st, tok, realm_id, intuit_email, intuit_user_id, t, faults) ==
    LET connOk == get_db_conn(faults)
        curOk == connOk
        ex == Execute(st, Params(tok, realm_id, intuit_email,
                                 intuit_user_id, t), t)
        execOk == curOk /\ ~ex.raised /\ "execute" \notin faults
        commitOk == execOk /\ "commit" \notin faults
        \* except Exception: if conn: conn.rollback()
        rollbackRaises == ~commitOk /\ connOk /\ "rollback" \in faults
        \* finally: if cur: cur.close(); if conn: conn.close()
        curCloseRaises == curOk /\ "cur_close" \in faults
        connCloseRuns == connOk /\ ~curCloseRaises
        connCloseRaises == connCloseRuns /\ "conn_close" \in faults
    IN  [store |-> IF commitOk THEN ex.store ELSE st,
         committed |-> commitOk,
         raised |-> rollbackRaises \/ curCloseRaises \/ connCloseRaises,
         leaked |-> connOk /\ (~connCloseRuns \/ connCloseRaises),
         \* access_expiry and refresh_expiry, computed once the cursor is open
         computed |-> curOk,
         access_expiry |->
            IF curOk THEN Expiry(t, tok.expires_in) ELSE NoneNum,
         refresh_expiry |->
            IF curOk THEN Expiry(t, tok.x_refresh_token_expires_in)
            ELSE NoneNum]

\* ---------------------------------------------------------------- callback

Init ==
    /\ store \in InitStores
    /\ now = 1
    /\ pc = [p \in Procs |-> "idle"]
    /\ req = [p \in Procs |-> [code |-> None, realmId |-> None]]
    /\ token = [p \in Procs |-> NoTokenResp]
    /\ userinfo = [p \in Procs |-> NoUserInfo]
    /\ resp = [p \in Procs |-> NoResp]
    /\ calls = [p \in Procs |-> NoCalls]
    /\ put = [p \in Procs |-> NoPut]
    /\ peeked = [p \in Procs |-> NoPeek]
    /\ session = None

Tick ==
    /\ now < MaxClock
    /\ now' = now + 1
    /\ UNCHANGED <<store, pc, req, token, userinfo, resp, calls, put, peeked,
                   session>>

\* if not code or not realm_id
MissingArgCodeOnly(code, realm_id) == ~Truthy(code)

MissingArg(code, realm_id) == ~Truthy(code) \/ ~Truthy(realm_id)

\* GET /callback arrives: read code and realmId, answer 400 when one is
\* missing, otherwise send the token-exchange POST.
CallbackReceive(p) ==
    /\ pc[p] \in {"idle", "done"}
    /\ \E code \in Codes, realm_id \in RealmArgs :
        /\ req' = [req EXCEPT ![p] = [code |-> code, realmId |-> realm_id]]
        /\ IF MissingArg(code, realm_id)
           THEN /\ pc' = [pc EXCEPT ![p] = "done"]
                /\ resp' = [resp EXCEPT ![p] = MissingArgs]
                /\ calls' = [calls EXCEPT ![p] = NoCalls]
           ELSE /\ pc' = [pc EXCEPT ![p] = "exchange"]
                /\ resp' = [resp EXCEPT ![p] = NoResp]
                /\ calls' = [calls EXCEPT ![p] = [NoCalls EXCEPT !.post = @ + 1]]
    /\ token' = [token EXCEPT ![p] = NoTokenResp]
    /\ userinfo' = [userinfo EXCEPT ![p] = NoUserInfo]
    /\ put' = [put EXCEPT ![p] = NoPut]
    /\ peeked' = [peeked EXCEPT ![p] = NoPeek]
    /\ UNCHANGED <<store, now, session>>

\* response.raise_for_status(): HTTPError for a 4xx or 5xx status.
RaiseForStatus5xx(r) == r.status >= 500 /\ r.status < 600

RaiseForStatus(r) == r.status >= 400 /\ r.status < 600

\* The request is sent again, once, before the failure is reported.
RequestRetried(p) ==
    IF calls[p].post < 2
    THEN /\ pc' = pc
         /\ resp' = resp
         /\ calls' = [calls EXCEPT ![p].post = @ + 1]
    ELSE /\ pc' = [pc EXCEPT ![p] = "done"]
         /\ resp' = [resp EXCEPT ![p] = CommFailed]
         /\ calls' = calls

\* except requests.RequestException: answer 502, nothing is sent again.
RequestFailed(p) ==
    /\ pc' = [pc EXCEPT ![p] = "done"]
    /\ resp' = [resp EXCEPT ![p] = CommFailed]
    /\ calls' = calls

\* The POST returns: raise_for_status, parse the body, require access_token,
\* then send the userinfo GET. A body that is not JSON makes response.json()
\* raise: a RequestException (502) or a ValueError (500), by the version of
\* requests.
TokenExchange(p) ==
    /\ pc[p] = "exchange"
    /\ \E r \in TokenResponses :
        /\ token' = [token EXCEPT ![p] = r]
        /\ IF r.kind = "neterr" \/ RaiseForStatus(r)
           THEN RequestFailed(p)
           ELSE IF ~r.json
           THEN /\ pc' = [pc EXCEPT ![p] = "done"]
                /\ \E e \in {CommFailed, AuthFailed} :
                      resp' = [resp EXCEPT ![p] = e]
                /\ calls' = calls
           ELSE IF ~Truthy(r.body.access_token)
           THEN /\ pc' = [pc EXCEPT ![p] = "done"]
                /\ resp' = [resp EXCEPT ![p] = MissingToken]
                /\ calls' = calls
           ELSE /\ pc' = [pc EXCEPT ![p] = "identity"]
                /\ resp' = resp
                /\ calls' = [calls EXCEPT ![p].get = @ + 1]
    /\ UNCHANGED <<store, now, req, userinfo, put, peeked, session>>

\* The GET returns: on 200 bind intuit_email and intuit_user_id, then
\* evaluate the arguments of the upsert_qbo_token call. intuit_user_id is
\* bound only in the 200 branch.
IdentityLookup(p) ==
    /\ pc[p] = "identity"
    /\ \E r \in UserInfoResponses :
        /\ userinfo' = [userinfo EXCEPT ![p] = r]
        /\ IF r.kind = "neterr"
           THEN /\ pc' = [pc EXCEPT ![p] = "done"]
                /\ resp' = [resp EXCEPT ![p] = CommFailed]
           ELSE IF r.status # 200
           THEN /\ pc' = [pc EXCEPT ![p] = "done"]
                /\ resp' = [resp EXCEPT ![p] = AuthFailed]
           ELSE /\ pc' = [pc EXCEPT ![p] = "persist"]
                /\ resp' = resp
    /\ UNCHANGED <<store, now, req, token, calls, put, peeked, session>>

\* upsert_qbo_token(token, realm_id, intuit_email, intuit_user_id), then the
\* redirect to /peek; an exception that leaves the upsert gives 500.
Persist(p) ==
    /\ pc[p] = "persist"
    /\ \E faults \in DbFaults :
        LET out == upsert_qbo_token(store, token[p].body, req[p].realmId,
                                    userinfo[p].email, userinfo[p].sub,
                                    now, faults)
        IN  /\ store' = out.store
            /\ put' = [put EXCEPT ![p] = [called |-> TRUE,
                                          faulty |-> faults # {},
                                          committed |-> out.committed,
                                          raised |-> out.raised,
                                          leaked |-> out.leaked,
                                          at |-> now,
                                          computed |-> out.computed,
                                          access_expiry |-> out.access_expiry,
                                          refresh_expiry |->
                                              out.refresh_expiry]]
            /\ resp' = [resp EXCEPT ![p] =
                          IF out.raised THEN AuthFailed ELSE RedirectPeek]
    /\ pc' = [pc EXCEPT ![p] = "done"]
    /\ calls' = [calls EXCEPT ![p].write = @ + 1]
    /\ UNCHANGED <<now, req, token, userinfo, peeked, session>>

\* -------------------------------------------------------------------- peek

\* LIMIT 5
PeekLimit == 5

\* SELECT realm_id, intuit_email, qbo_environment, refresh_token_expires_at
Summary(r) ==
    [realm_id |-> r.realm_id, intuit_email |-> r.intuit_email,
     qbo_environment |-> r.qbo_environment,
     refresh_token_expires_at |-> r.refresh_token_expires_at]

\* ORDER BY updated_at ASC: the rows no other row precedes.
Earliest(rows) == { r \in rows : \A o \in rows : r.updated_at <= o.updated_at }

\* The rows no other row follows.
Latest(rows) == { r \in rows : \A o \in rows : o.updated_at <= r.updated_at }

\* ORDER BY updated_at DESC LIMIT k: the sequences the query can return,
\* rows of equal updated_at coming in any order.
RECURSIVE OrderByUpdatedDesc(_, _)
OrderByUpdatedDesc(rows, k) ==
    IF rows = {} \/ k = 0 THEN { <<>> }
    ELSE UNION { { <<r>> \o rest :
                     rest \in OrderByUpdatedDesc(rows \ {r}, k - 1) } :
                 r \in Latest(rows) }

\* peek has no try block: the first call that raises ends it.
PeekFaults ==
    { {} } \cup { {f} : f \in {"connect", "execute", "cur_close"} }

\* GET /peek, whole: open a connection, select, close, answer the rows as
\* JSON. An exception leaves the handler as a 500, and leaves the connection
\* open when it was raised after get_db_conn returned.
Peek(p) ==
    /\ pc[p] \in {"idle", "done"}
    /\ \E faults \in PeekFaults :
        IF faults = {}
        THEN \E found \in OrderByUpdatedDesc(store, PeekLimit) :
                peeked' = [peeked EXCEPT ![p] =
                    [called |-> TRUE, status |-> 200,
                     rows |-> [i \in 1..Len(found) |-> Summary(found[i])],
                     leaked |-> FALSE]]
        ELSE peeked' = [peeked EXCEPT ![p] =
                    [called |-> TRUE, status |-> 500, rows |-> <<>>,
                     leaked |-> get_db_conn(faults)]]
    /\ pc' = [pc EXCEPT ![p] = "idle"]
    /\ req' = [req EXCEPT ![p] = NoReq]
    /\ token' = [token EXCEPT ![p] = NoTokenResp]
    /\ userinfo' = [userinfo EXCEPT ![p] = NoUserInfo]
    /\ resp' = [resp EXCEPT ![p] = NoResp]
    /\ calls' = [calls EXCEPT ![p] = NoCalls]
    /\ put' = [put EXCEPT ![p] = NoPut]
    /\ UNCHANGED <<store, now, session>>

\* ------------------------------------------------------------------- start

\* The state value authorize_redirect generates.
States == {"st1"}

\* GET /start, whole: mark the session permanent, let authorize_redirect
\* save a fresh state in the session and answer the redirect to the
\* authorization server, the state in its query.
Start(p) ==
    /\ pc[p] \in {"idle", "done"}
    /\ \E st \in States : session' = st
    /\ pc' = [pc EXCEPT ![p] = "idle"]
    /\ req' = [req EXCEPT ![p] = NoReq]
    /\ token' = [token EXCEPT ![p] = NoTokenResp]
    /\ userinfo' = [userinfo EXCEPT ![p] = NoUserInfo]
    /\ resp' = [resp EXCEPT ![p] = NoResp]
    /\ calls' = [calls EXCEPT ![p] = NoCalls]
    /\ put' = [put EXCEPT ![p] = NoPut]
    /\ peeked' = [peeked EXCEPT ![p] = NoPeek]
    /\ UNCHANGED <<store, now>>

callback(p) ==
    \/ CallbackReceive(p)
    \/ TokenExchange(p)
    \/ IdentityLookup(p)
    \/ Persist(p)

Next ==
    \/ Tick
    \/ \E p \in Procs : callback(p)
    \/ \E p \in Procs : Peek(p)
    \/ \E p \in Procs : Start(p)

Spec == Init /\ [][Next]_vars

\* ------------------------------------------------------------------ claims

Key(r) == <<r.realm_id, r.qbo_environment>>
RowsOf(st, realm_id) == { r \in st : Key(r) = <<realm_id, QBO_ENV>> }

Done(p) == pc[p] = "done"
Succeeded(p) == Done(p) /\ resp[p] = RedirectPeek
Failed(p) == Done(p) /\ resp[p].status \in {400, 500, 502}

\* The token exchange of p's request answered 200 with an access_token.
ExchangeOk(p) ==
    /\ token[p].kind = "http" /\ token[p].status = 200 /\ token[p].json
    /\ Truthy(token[p].body.access_token)

\* The identity lookup of p's request failed: network failure or non-200.
IdentityFailed(p) ==
    \/ userinfo[p].kind = "neterr"
    \/ userinfo[p].kind = "http" /\ userinfo[p].status # 200

\* The step in which p's callback runs upsert_qbo_token and returns.
PersistStep(p) == pc[p] = "persist" /\ pc'[p] = "done"

\* C1: when a callback with code and realmId, whose token exchange answered
\* 200 with an access_token and whose identity lookup answered 200, returns
\* the success redirect (the datastore not having failed), the store holds
\* a record keyed (realmId, QBO_ENV) with the access_token and
\* refresh_token of the token response, intuit_user_id = sub and
\* intuit_email = email.
C1_RecordStored ==
    [][ \A p \in Procs :
          ( /\ PersistStep(p) /\ resp'[p] = RedirectPeek /\ ~put'[p].faulty
            /\ ExchangeOk(p)
            /\ userinfo[p].kind = "http" /\ userinfo[p].status = 200 )
          => \E r \in RowsOf(store', req[p].realmId) :
                /\ r.access_token = token[p].body.access_token
                /\ r.refresh_token = token[p].body.refresh_token
                /\ r.intuit_user_id = userinfo[p].sub
                /\ r.intuit_email = userinfo[p].email
      ]_vars

\* C2: the callback returns the success redirect only if the record of the
\* attempt was committed.
C2_SuccessOnlyIfCommitted ==
    \A p \in Procs : Succeeded(p) => put[p].committed

\* C3: a callback whose token exchange answered 200 with an access_token
\* and whose identity lookup failed does not abort: it goes on to the store
\* write, and a record for the realm is persisted with intuit_email and
\* intuit_user_id null.
C3_IdentityFailureNotFatal ==
    \A p \in Procs :
        (Done(p) /\ ExchangeOk(p) /\ IdentityFailed(p))
        => /\ put[p].called
           /\ resp[p].status \notin {400, 500, 502}
           /\ \E r \in RowsOf(store, req[p].realmId) :
                 r.intuit_email = None /\ r.intuit_user_id = None

\* C4: a callback in which code or realmId is absent or empty answers 400
\* (missing code or realmId) and makes no token-exchange POST, no identity
\* GET and no store write.
C4_MissingArgsNoCalls ==
    \A p \in Procs :
        (pc[p] # "idle" /\ (~Truthy(req[p].code) \/ ~Truthy(req[p].realmId)))
        => /\ Done(p)
           /\ resp[p] = MissingArgs
           /\ calls[p] = NoCalls
           /\ ~put[p].called

C4_Witness ==
    \E p \in Procs :
        /\ Done(p) /\ resp[p] = MissingArgs
        /\ req[p].code = "c1" /\ req[p].realmId = ""

\* The callback of p ended with a failure response right after the token
\* exchange: no identity GET, no store write.
EndsAtExchange(p) ==
    /\ Done(p)
    /\ resp[p] \in {CommFailed, MissingToken, AuthFailed}
    /\ calls[p].get = 0 /\ calls[p].write = 0
    /\ ~put[p].called

\* C5 (as claimed): a token-exchange response whose status is not exactly
\* 200, or whose body omits access_token, ends the callback with a failure
\* response, with no identity lookup and no persistence.
C5_Not200Fails ==
    \A p \in Procs :
        ( /\ token[p].kind = "http"
          /\ (token[p].status # 200 \/ ~Truthy(token[p].body.access_token)) )
        => EndsAtExchange(p)

\* C5 (amended): a token-exchange response whose status is an error status
\* (4xx or 5xx), or whose body omits access_token, ends the callback with a
\* failure response, with no identity lookup and no persistence.
C5_ErrorStatusFails ==
    \A p \in Procs :
        ( /\ token[p].kind = "http"
          /\ \/ (token[p].status >= 400 /\ token[p].status < 600)
             \/ ~Truthy(token[p].body.access_token) )
        => EndsAtExchange(p)

C5_Witness ==
    \E p \in Procs :
        /\ Done(p) /\ resp[p] = CommFailed
        /\ token[p].status = 401 /\ Truthy(token[p].body.access_token)

\* C6: two successive successful upserts with the same (realm_id,
\* environment) and different access_token values leave exactly one record
\* for the key, whose access_token is the second value, whose created_at is
\* no later than the first write and whose updated_at is the time of the
\* second write. An upsert counts as successful when the datastore did not
\* fail during it and the callback that made it returned the success
\* redirect.
C6_SecondUpsertWins ==
    \A p, q \in Procs :
        ( /\ p # q /\ Succeeded(p) /\ Succeeded(q)
          /\ ~put[p].faulty /\ ~put[q].faulty
          /\ req[p].realmId = req[q].realmId
          /\ token[p].body.access_token # token[q].body.access_token
          /\ put[p].at < put[q].at )
        => /\ Cardinality(RowsOf(store, req[q].realmId)) = 1
           /\ \A r \in RowsOf(store, req[q].realmId) :
                 /\ r.access_token = token[q].body.access_token
                 /\ r.created_at <= put[p].at
                 /\ r.updated_at = put[q].at

OneRecordPerKey == \A r1, r2 \in store : Key(r1) = Key(r2) => r1 = r2
NoRecordDeleted == \A r \in store : \E r2 \in store' : Key(r2) = Key(r)

\* C7: in every reachable state, whatever the interleaving of callbacks,
\* the store holds at most one record per (realm_id, environment), and no
\* step deletes a record.
C7_OnePerKeyNoDelete == []OneRecordPerKey /\ [][NoRecordDeleted]_vars

\* Two callbacks for the same realm ran their upsert at the same time, over
\* an existing record of that realm.
C7_Witness ==
    \E p, q \in Procs :
        /\ p # q /\ Done(p) /\ Done(q)
        /\ put[p].called /\ put[q].called /\ put[p].at = put[q].at
        /\ req[p].realmId = req[q].realmId
        /\ RowsOf(store, req[p].realmId) # {}

C10_ConflictOverwrites ==
    [][ \A p \in Procs :
          (PersistStep(p) /\ resp'[p] = RedirectPeek /\ ~put'[p].faulty)
          => \A old \in RowsOf(store, req[p].realmId) :
                \E new \in RowsOf(store', req[p].realmId) :
                   /\ new.access_token = token[p].body.access_token
                   /\ new.refresh_token = token[p].body.refresh_token
                   /\ new.token_type = TokenType(token[p].body)
                   /\ new.expires_in = token[p].body.expires_in
                   /\ new.refresh_expires_in
                        = token[p].body.x_refresh_token_expires_in
                   /\ new.issued_at_utc = now
                   /\ new.access_token_expires_at
                        = Expiry(now, token[p].body.expires_in)
                   /\ new.refresh_token_expires_at
                        = Expiry(now, token[p].body.x_refresh_token_expires_in)
                   /\ new.intuit_user_id = userinfo[p].sub
                   /\ new.intuit_email = userinfo[p].email
                   /\ new.created_at = old.created_at
                   /\ new.updated_at = now
      ]_vars

\* C11: every record the token store derives satisfies: when expires_in is
\* present (any number of seconds, zero included) access_token_expires_at
\* is issued_at + expires_in, otherwise it is null; and likewise
\* refresh_token_expires_at from x_refresh_token_expires_in. Stated of the
\* expiries upsert_qbo_token computes for the record it writes, and of the
\* records in the store.
DerivedFrom(issued_at, seconds, expires_at) ==
    IF seconds # NoneNum THEN expires_at = issued_at + seconds
    ELSE expires_at = NoneNum

C11_ExpiryDerived ==
    /\ \A p \in Procs :
          put[p].computed
          => /\ DerivedFrom(put[p].at, token[p].body.expires_in,
                            put[p].access_expiry)
             /\ DerivedFrom(put[p].at,
                            token[p].body.x_refresh_token_expires_in,
                            put[p].refresh_expiry)
    /\ \A r \in store :
          /\ DerivedFrom(r.issued_at_utc, r.expires_in,
                         r.access_token_expires_at)
          /\ DerivedFrom(r.issued_at_utc, r.refresh_expires_in,
                         r.refresh_token_expires_at)

\* C12: every datastore connection a token store operation opens
\* (upsert_qbo_token, the query of peek) is closed when the operation
\* returns or raises: no handler that has returned left a connection open.
C12_NoConnectionLeak ==
    \A p \in Procs : ~put[p].leaked /\ ~peeked[p].leaked

\* The stored row a summary was selected from.
RowOf(st, sm) ==
    CHOOSE r \in st : Key(r) = <<sm.realm_id, sm.qbo_environment>>

Min(a, b) == IF a <= b THEN a ELSE b

\* C13: the query of peek returns min(5, number of stored records)
\* summaries of distinct stored records, ordered by updated_at descending
\* with a most recently written record first, and every stored record it
\* omits has an updated_at no later than every returned one.
C13_ListRecent ==
    [][ \A p \in Procs :
          (peeked'[p] # peeked[p] /\ peeked'[p].status = 200)
          => LET out == peeked'[p].rows
                 n == Len(out)
                 shown == { <<out[i].realm_id, out[i].qbo_environment>> :
                              i \in 1..n }
             IN  /\ n = Min(5, Cardinality(store))
                 /\ Cardinality(shown) = n
                 /\ \A i \in 1..n :
                       /\ \E r \in store : Summary(r) = out[i]
                       /\ \A j \in i..n :
                             RowOf(store, out[i]).updated_at
                                >= RowOf(store, out[j]).updated_at
                 /\ n > 0 => \A r \in store :
                                 r.updated_at <= RowOf(store, out[1]).updated_at
                 /\ \A r \in store :
                       Key(r) \notin shown
                       => \A i \in 1..n :
                             r.updated_at <= RowOf(store, out[i]).updated_at
      ]_vars

\* A peek over more than five records, two of them written at the same time.
C13_Witness ==
    \E p \in Procs :
        /\ peeked[p].status = 200 /\ Len(peeked[p].rows) = 5
        /\ Cardinality(store) > 5
        /\ peeked[p].rows[1].qbo_environment = "production"

\* C14: no automatic retries. A callback sends at most one token-exchange
\* POST and at most one identity GET and attempts at most one store write;
\* a token-exchange call that timed out (no response) has ended the callback
\* with the 502 failure response, with no identity GET and no store write.
C14_NoRetries ==
    \A p \in Procs :
        /\ calls[p].post <= 1
        /\ calls[p].get <= 1
        /\ calls[p].write <= 1
        /\ put[p].called => calls[p].write = 1
        /\ token[p].kind = "neterr" =>
              /\ Done(p)
              /\ resp[p] = CommFailed
              /\ calls[p].get = 0
              /\ calls[p].write = 0
              /\ ~put[p].called

C14_Witness ==
    \E p \in Procs :
        /\ Done(p)
        /\ token[p].kind = "neterr"
        /\ resp[p] = CommFailed
        /\ calls[p].post = 1

\* The token exchange of p's request was accepted by the callback: a
\* response that raise_for_status lets through, with a JSON body holding an
\* access_token.
ExchangeAccepted(p) ==
    /\ token[p].kind = "http" /\ token[p].status \in 200..399
    /\ token[p].json
    /\ Truthy(token[p].body.access_token)

\* C15: ordering of an authorization attempt. The identity GET is sent only
\* after the token exchange succeeded with an access_token; the store write
\* is attempted only after that exchange and after the identity GET was
\* sent and answered; a token exchange answered with HTTP 401 attempts no
\* identity GET and no store write.
C15_Ordering ==
    \A p \in Procs :
        /\ calls[p].get >= 1 => calls[p].post = 1 /\ ExchangeAccepted(p)
        /\ (pc[p] = "persist" \/ put[p].called \/ calls[p].write >= 1) =>
              /\ ExchangeAccepted(p)
              /\ calls[p].get = 1
              /\ userinfo[p] # NoUserInfo
        /\ userinfo[p] # NoUserInfo => calls[p].get = 1
        /\ (token[p].kind = "http" /\ token[p].status = 401) =>
              /\ calls[p].get = 0
              /\ calls[p].write = 0
              /\ ~put[p].called
              /\ pc[p] = "done"

C15_Witness ==
    \E p, q \in Procs :
        /\ put[p].called /\ ExchangeAccepted(p) /\ calls[p].get = 1
        /\ Done(q) /\ token[q].kind = "http" /\ token[q].status = 401
        /\ Truthy(token[q].body.access_token)
        /\ ~put[q].called

\* C16: an authorization attempt reaches the store write only if it passed
\* through /start. A callback served while the session holds no anti-forgery
\* state (no /start came before it) never calls upsert_qbo_token.
C16_StartedBeforePersisted ==
    \A p \in Procs : put[p].called => session \in States

FromCallback(r, p) ==
    /\ r.access_token = token[p].body.access_token
    /\ r.refresh_token = token[p].body.refresh_token
    /\ r.expires_in = token[p].body.expires_in
    /\ r.refresh_expires_in = token[p].body.x_refresh_token_expires_in
    /\ r.issued_at_utc = put[p].at
    /\ r.access_token_expires_at = put[p].access_expiry
    /\ r.refresh_token_expires_at = put[p].refresh_expiry
    /\ r.intuit_user_id = userinfo[p].sub
    /\ r.intuit_email = userinfo[p].email

C19_OtherKeysUntouched ==
    [][ /\ store' # store => \E p \in Procs : PersistStep(p)
        /\ \A p \in Procs :
              PersistStep(p)
              => /\ \A r \in store :
                       Key(r) # <<req[p].realmId, QBO_ENV>> => r \in store'
                 /\ \A r \in store' \ store :
                       Key(r) = <<req[p].realmId, QBO_ENV>>
      ]_vars

C19_Witness ==
    \E p \in Procs :
        /\ Succeeded(p) /\ put[p].called /\ ~put[p].faulty
        /\ req[p].realmId = "r1"
        /\ \E r \in store : Key(r) = <<"r1", "production">>
        /\ \E r \in store : Key(r) = <<"r2", QBO_ENV>>

====
